---- MODULE Spec2Model ----
(***************************************************************************)
(* Hybrid logical clock (src/src/hlc.rs) and the SQLite-backed event store *)
(* (src/src/legacy/storage.rs) of graphite.                                *)
(***************************************************************************)
EXTENDS Integers, Sequences, FiniteSets, TLC

VARIABLES
    \* ---- hlc::State ----
    overflowChecks, \* build profile: TRUE = arithmetic overflow panics, FALSE = it wraps
    s,              \* State.s, the clock's current HLTimestamp
    panicked,       \* the last clock call unwound instead of returning
    op,             \* last clock call: "none", "get_time", "update"
    pre,            \* State.s before the last call
    phys,           \* value (self.now)() returned in the last call
    remote,         \* the `event` argument of the last update
    ret,            \* timestamp returned by the last call
    hasPrevGet,     \* some get_time call returned before the last call
    prevGet,        \* what the most recent earlier get_time call returned
    getLog,         \* <<p, ret>> of every call so far, while all were get_time
    onlyGets,       \* every call so far was get_time
    calls,          \* number of clock calls made
    maxSeen,        \* largest of 0, every physical reading and every remote seconds so far
    \* ---- legacy::storage::EventStorage: the `events` table and its two users ----
    rows,           \* committed content of table `events`
    wpc,            \* writer: "idle", or "tx" inside record_batch's transaction
    txRows,         \* rows inserted by the open transaction, in order
    wop,            \* writer's last call: "none", "record", "record_batch"
    wres,           \* its result: "none", "run", "ok", "err"
    wlog,           \* envelopes that call has handed to INSERT so far
    rowsBefore,     \* `rows` when that call started
    acked,          \* events whose record / record_batch returned Ok
    rpc,            \* reader: "idle", or "rows" inside play_internal's loop
    query,          \* reader's last call: play or play_from(hlc)
    cursor,         \* result rows of its SELECT, in result order
    pos,            \* rows of `cursor` consumed without error
    delivered,      \* events handed to the visitor f, in order
    rres,           \* its result: "none", "run", "ok", "err"
    failKind,       \* why it failed: "none", "prepare", "deserialize", "visitor"
    snap,           \* `acked` when the SELECT ran
    \* ---- legacy::storage::EventCreator ----
    cPhase,         \* "none" before EventCreator::new, then "ready", or "panicked"
    cActor,         \* EventCreator.actor
    cLast,          \* the `hlt` argument of EventCreator::new
    cClock,         \* EventCreator.hlc, the creator's own clock state
    cEvent,         \* the event the last create returned
    cPrev,          \* hlc of the event the create before it returned
    cMade,          \* number of events created
    \* ---- Mutex<State> of State::new_sendable ----
    holder          \* producer holding the lock, 0 when it is free

clockVars == <<overflowChecks, s, panicked, op, pre, phys, remote, ret,
               hasPrevGet, prevGet, getLog, onlyGets, calls, maxSeen>>

writerVars == <<wpc, txRows, wop, wres, wlog, rowsBefore>>

readerVars == <<rpc, query, cursor, pos, delivered, rres, failKind, snap>>

storeVars == <<rows, acked, writerVars, readerVars>>

creatorVars == <<cPhase, cActor, cLast, cClock, cEvent, cPrev, cMade>>

mutexVars == <<holder>>

vars == <<clockVars, storeVars, creatorVars, mutexVars>>

\* ---------------------------------------------------------------- bounds
MaxPhys == 3
MaxCalls == 4
MaxId == 2
MaxBatch == 2
MaxCreates == 2
Producers == 2

\* ---------------------------------------------------------------- hlc.rs
\* u16: the logical component holds 0 .. 65535
LogicalMod == 65536

HLTimestamp(sec, l) == [seconds |-> sec, logical |-> l]

\* derive(PartialOrd, Ord) on HLTimestamp: seconds first, logical second
Less(a, b) ==
    \/ a.seconds < b.seconds
    \/ a.seconds = b.seconds /\ a.logical < b.logical

Leq(a, b) == a = b \/ Less(a, b)

\* `x + 1` / `x += 1` on a u16: panics with overflow checks, wraps without
AddOne(l, chk) ==
    IF l + 1 < LogicalMod THEN [v |-> l + 1, ok |-> TRUE]
    ELSE IF chk THEN [v |-> l, ok |-> FALSE]
    ELSE [v |-> (l + 1) % LogicalMod, ok |-> TRUE]

Max(a, b) == IF a >= b THEN a ELSE b

\* State::new_with
new_with == HLTimestamp(0, 0)

\* get_time taking the physical reading without comparing it to the state
get_timeFollowsPhys(st, p, chk) ==
    IF st.seconds # p
    THEN [s |-> HLTimestamp(p, 0), ok |-> TRUE]
    ELSE LET n == AddOne(st.logical, chk)
         IN  [s |-> HLTimestamp(st.seconds, n.v), ok |-> n.ok]

\* State::get_time: the state after the call and whether the call returned
get_time(st, p, chk) ==
    IF st.seconds < p
    THEN [s |-> HLTimestamp(p, 0), ok |-> TRUE]
    ELSE LET n == AddOne(st.logical, chk)
         IN  [s |-> HLTimestamp(st.seconds, n.v), ok |-> n.ok]

\* State::update
update(st, p, event, chk) ==
    IF p > event.seconds /\ p > st.seconds
    THEN [s |-> HLTimestamp(p, 0), ok |-> TRUE]
    ELSE IF event.seconds > st.seconds
    THEN LET n == AddOne(event.logical, chk)
         IN  \* s.seconds is assigned before `event.logical + 1` is evaluated
             [s |-> HLTimestamp(event.seconds, IF n.ok THEN n.v ELSE st.logical),
              ok |-> n.ok]
    ELSE IF st.seconds > event.seconds
    THEN LET n == AddOne(st.logical, chk)
         IN  [s |-> HLTimestamp(st.seconds, n.v), ok |-> n.ok]
    ELSE LET m == IF event.logical > st.logical THEN event.logical ELSE st.logical
             n == AddOne(m, chk)
         IN  [s |-> HLTimestamp(st.seconds, n.v), ok |-> n.ok]

\* readings of the physical-time source (i64): it may stall, regress, be negative
PhysReadings == (0 - 1) .. MaxPhys

\* timestamps a remote producer may send
RemoteLogicals == {0, LogicalMod - 2, LogicalMod - 1}
RemoteStamps == {HLTimestamp(sec, l) : sec \in 0 .. MaxPhys, l \in RemoteLogicals}

ClockInit ==
    /\ overflowChecks \in BOOLEAN
    /\ s = new_with
    /\ panicked = FALSE
    /\ op = "none"
    /\ pre = new_with
    /\ phys = 0
    /\ remote = new_with
    /\ ret = new_with
    /\ hasPrevGet = FALSE
    /\ prevGet = new_with
    /\ getLog = <<>>
    /\ onlyGets = TRUE
    /\ calls = 0
    /\ maxSeen = 0

\* one call of State::get_time with physical reading p
GetTime(p) ==
    /\ ~panicked
    /\ calls < MaxCalls
    /\ LET r == get_time(s, p, overflowChecks)
       IN  /\ s' = r.s
           /\ panicked' = ~r.ok
           /\ ret' = IF r.ok THEN r.s ELSE ret
           /\ getLog' = IF onlyGets /\ r.ok THEN Append(getLog, <<p, r.s>>) ELSE getLog
    /\ op' = "get_time"
    /\ pre' = s
    /\ phys' = p
    /\ hasPrevGet' = (op = "get_time" \/ hasPrevGet)
    /\ prevGet' = IF op = "get_time" THEN ret ELSE prevGet
    /\ calls' = calls + 1
    /\ maxSeen' = Max(maxSeen, p)
    /\ UNCHANGED <<overflowChecks, remote, onlyGets, storeVars, creatorVars, mutexVars>>

\* one call of State::update with physical reading p and remote timestamp e
Update(p, e) ==
    /\ ~panicked
    /\ calls < MaxCalls
    /\ LET r == update(s, p, e, overflowChecks)
       IN  /\ s' = r.s
           /\ panicked' = ~r.ok
           /\ ret' = IF r.ok THEN r.s ELSE ret
    /\ op' = "update"
    /\ pre' = s
    /\ phys' = p
    /\ remote' = e
    /\ hasPrevGet' = (op = "get_time" \/ hasPrevGet)
    /\ prevGet' = IF op = "get_time" THEN ret ELSE prevGet
    /\ onlyGets' = FALSE
    /\ getLog' = <<>>
    /\ calls' = calls + 1
    /\ maxSeen' = Max(maxSeen, Max(p, e.seconds))
    /\ UNCHANGED <<overflowChecks, storeVars, creatorVars, mutexVars>>

ClockNext ==
    \/ \E p \in PhysReadings : GetTime(p)
    \/ \E p \in PhysReadings, e \in RemoteStamps : Update(p, e)

\* ---------------------------------------------------------------- legacy/storage.rs
Range(f) == {f[i] : i \in DOMAIN f}

\* Datum::Float(f64): a finite value and a non-finite one
Datums == {[kind |-> "Float", v |-> "1.5"], [kind |-> "Float", v |-> "NaN"]}

\* Action::AddFact { subject, predicate, datum }
Actions == {[type |-> "AddFact", datum |-> d] : d \in Datums}

EventIds == 1 .. MaxId
\* two values of each component give every relative order of two timestamps
Seconds == {0, 1}
Logicals == {0, 1}
Stamps == {HLTimestamp(sec, l) : sec \in Seconds, l \in Logicals}

\* struct Event
Event(id, hlc, action, actor, version) ==
    [id |-> id, hlc |-> hlc, action |-> action, actor |-> actor, version |-> version]

\* the events callers hand to record / record_batch
Envelopes == {Event(id, h, a, "actor", 0) : id \in EventIds, h \in Stamps, a \in Actions}

\* ids are opaque (Uuid::new_v4) and only ever compared for equality: an
\* envelope reuses an id the connection sees, or brings the first unused one
FreshId(present) ==
    LET unused == {i \in EventIds : \A r \in present : r.id # i}
    IN  IF unused = {} THEN {} ELSE {CHOOSE i \in unused : \A j \in unused : i <= j}

Incoming(present) ==
    {e \in Envelopes : e.id \in {r.id : r \in present} \cup FreshId(present)}

\* serde_json::to_string(&envelope.action): a non-finite float is written as
\* null; writing these types to a string never fails
to_string(a) ==
    [ok |-> TRUE,
     json |-> [type |-> a.type,
               datum |-> [kind |-> a.datum.kind,
                          text |-> IF a.datum.kind = "Float" /\ a.datum.v = "NaN"
                                   THEN "null" ELSE a.datum.v]]]

\* serde_json::from_str::<Action>(&action_string): null is no f64
from_str(j) ==
    IF j.datum.kind = "Float" /\ j.datum.text = "null"
    THEN [ok |-> FALSE, action |-> [type |-> "error"]]
    ELSE [ok |-> TRUE,
          action |-> [type |-> j.type, datum |-> [kind |-> j.datum.kind, v |-> j.datum.text]]]

\* rusqlite::params![...]: the row an INSERT writes for an envelope
Row(e, json, rowid) ==
    [rowid |-> rowid, id |-> e.id, hlc_seconds |-> e.hlc.seconds,
     hlc_logical |-> e.hlc.logical, action |-> json, actor |-> e.actor,
     version |-> e.version]

\* the query_map closure of play_internal: a row read back as an Event
FromRow(r) ==
    LET d == from_str(r.action)
    IN  [ok |-> d.ok,
         event |-> Event(r.id, HLTimestamp(r.hlc_seconds, r.hlc_logical), d.action,
                         r.actor, r.version)]

SetMax(S) == CHOOSE x \in S : \A y \in S : y <= x

\* the rowid SQLite gives the next row of a table holding `present`
NextRowid(present) ==
    IF present = {} THEN 1 ELSE SetMax({r.rowid : r \in present}) + 1

\* the INSERT on a table declared without the primary key
InsertNoKey(present, e, json, fault) ==
    IF fault
    THEN [ok |-> FALSE, row |-> Row(e, json, 0)]
    ELSE [ok |-> TRUE, row |-> Row(e, json, NextRowid(present))]

\* INSERT INTO events ...: `id BLOB PRIMARY KEY` refuses a second row with an
\* id the connection already sees; `fault` is any other engine failure
Insert(present, e, json, fault) ==
    IF fault \/ \E r \in present : r.id = e.id
    THEN [ok |-> FALSE, row |-> Row(e, json, 0)]
    ELSE [ok |-> TRUE, row |-> Row(e, json, NextRowid(present))]

\* the statement written as INSERT OR REPLACE: a row with the same id gives way
recordReplaces(table, e, fault) ==
    LET js == to_string(e.action)
        kept == {r \in table : r.id # e.id}
    IN  IF js.ok /\ ~fault
        THEN [ok |-> TRUE, table |-> kept \cup {Row(e, js.json, NextRowid(table))}]
        ELSE [ok |-> FALSE, table |-> table]

\* record: serialize, then one INSERT on the connection (autocommit)
record(table, e, fault) ==
    LET js == to_string(e.action)
        ins == Insert(table, e, js.json, fault)
    IN  IF js.ok /\ ins.ok
        THEN [ok |-> TRUE, table |-> table \cup {ins.row}]
        ELSE [ok |-> FALSE, table |-> table]

\* the INSERT run on the connection outside any transaction: committed at once
TxExecuteAutocommit(table, own, row) == [table |-> table \cup {row}, own |-> Append(own, row)]

\* tx.execute(...) in record_batch: the row goes to the open transaction
TxExecute(table, own, row) == [table |-> table, own |-> Append(own, row)]

\* tx.commit(): the transaction's rows become part of the table
TxCommit(table, own) == table \cup Range(own)

\* a dropped Transaction that commits what it holds
TxDropCommits(table, own) == table \cup Range(own)

\* `?` leaving record_batch drops the Transaction, which rolls back
TxDrop(table, own) == table

\* the two comparisons joined by OR
PlayFromWhereOr(r, hlc) == r.hlc_seconds >= hlc.seconds \/ r.hlc_logical >= hlc.logical

\* WHERE hlc_seconds >= {} AND hlc_logical >= {}
PlayFromWhere(r, hlc) == r.hlc_seconds >= hlc.seconds /\ r.hlc_logical >= hlc.logical

\* no ORDER BY clause: the table scan returns rows in rowid order
OrderByRowid(a, b) == a.rowid <= b.rowid

\* ORDER BY hlc_seconds, hlc_logical
OrderBy(a, b) ==
    \/ a.hlc_seconds < b.hlc_seconds
    \/ a.hlc_seconds = b.hlc_seconds /\ a.hlc_logical <= b.hlc_logical

\* every order in which the SELECT may return the rows of S (ties in any order)
Ordered(S) ==
    {f \in [1 .. Cardinality(S) -> S] :
        /\ \A i, j \in DOMAIN f : i # j => f[i] # f[j]
        /\ \A i, j \in DOMAIN f : i < j => OrderBy(f[i], f[j])}

\* the statements play and play_from prepare
PlayQuery == [kind |-> "play", hlc |-> HLTimestamp(0, 0)]
PlayFromQuery(hlc) == [kind |-> "play_from", hlc |-> hlc]
Queries == {PlayQuery} \cup {PlayFromQuery(h) : h \in Stamps}

Select(table, q) ==
    Ordered({r \in table : q.kind = "play" \/ PlayFromWhere(r, q.hlc)})

StoreInit ==
    /\ rows = {}
    /\ acked = {}
    /\ wpc = "idle" /\ txRows = <<>> /\ wop = "none" /\ wres = "none"
    /\ wlog = <<>> /\ rowsBefore = {}
    /\ rpc = "idle" /\ query = PlayQuery /\ cursor = <<>> /\ pos = 0
    /\ delivered = <<>> /\ rres = "none" /\ failKind = "none" /\ snap = {}

\* a call starting on one connection ends the record kept of the other
\* connection's last finished call
ForgetReader ==
    IF rpc = "idle"
    THEN /\ query' = PlayQuery /\ cursor' = <<>> /\ pos' = 0 /\ delivered' = <<>>
         /\ rres' = "none" /\ failKind' = "none" /\ snap' = {} /\ rpc' = rpc
    ELSE UNCHANGED readerVars

ForgetWriter ==
    IF wpc = "idle"
    THEN /\ wop' = "none" /\ wres' = "none" /\ wlog' = <<>> /\ rowsBefore' = {}
         /\ txRows' = <<>> /\ wpc' = wpc
    ELSE UNCHANGED writerVars

\* EventStorage::record(envelope)
Record(e, fault) ==
    /\ wpc = "idle"
    /\ LET r == record(rows, e, fault)
       IN  /\ rows' = r.table
           /\ wres' = IF r.ok THEN "ok" ELSE "err"
           /\ acked' = IF r.ok THEN acked \cup {e} ELSE acked
    /\ wop' = "record"
    /\ wlog' = <<e>>
    /\ rowsBefore' = rows
    /\ UNCHANGED <<wpc, txRows, clockVars, creatorVars, mutexVars>>
    /\ ForgetReader

\* EventStorage::record_batch, self.conn.transaction()
BatchBegin(fault) ==
    /\ wpc = "idle"
    /\ wop' = "record_batch"
    /\ wlog' = <<>>
    /\ txRows' = <<>>
    /\ rowsBefore' = rows
    /\ IF fault THEN wpc' = "idle" /\ wres' = "err"
                ELSE wpc' = "tx" /\ wres' = "run"
    /\ UNCHANGED <<rows, acked, clockVars, creatorVars, mutexVars>>
    /\ ForgetReader

\* EventStorage::record_batch, one iteration of `for envelope in envelopes`
BatchInsert(e, fault) ==
    /\ wpc = "tx"
    /\ Len(wlog) < MaxBatch
    /\ wlog' = Append(wlog, e)
    /\ LET js == to_string(e.action)
           ins == Insert(rows \cup Range(txRows), e, js.json, fault)
       IN  IF js.ok /\ ins.ok
           THEN LET x == TxExecute(rows, txRows, ins.row)
                IN  /\ rows' = x.table
                    /\ txRows' = x.own
                    /\ UNCHANGED <<wpc, wres>>
           ELSE /\ rows' = TxDrop(rows, txRows)
                /\ txRows' = <<>>
                /\ wpc' = "idle"
                /\ wres' = "err"
    /\ UNCHANGED <<wop, rowsBefore, acked, readerVars, clockVars, creatorVars, mutexVars>>

\* EventStorage::record_batch, tx.commit() after the last envelope
BatchCommit(fault) ==
    /\ wpc = "tx"
    /\ IF fault
       THEN /\ rows' = TxDrop(rows, txRows)
            /\ wres' = "err"
            /\ acked' = acked
       ELSE /\ rows' = TxCommit(rows, txRows)
            /\ wres' = "ok"
            /\ acked' = acked \cup Range(wlog)
    /\ txRows' = <<>>
    /\ wpc' = "idle"
    /\ UNCHANGED <<wop, wlog, rowsBefore, readerVars, clockVars, creatorVars, mutexVars>>

\* the loop body with the visitor's error noted and the loop carried on
VisitContinues(visitorOk) ==
    LET x == FromRow(cursor[pos + 1])
    IN  /\ delivered' = IF x.ok THEN Append(delivered, x.event) ELSE delivered
        /\ pos' = pos + 1
        /\ failKind' = IF ~x.ok THEN "deserialize"
                       ELSE IF ~visitorOk THEN "visitor" ELSE failKind
        /\ rres' = IF ~x.ok \/ ~visitorOk \/ rres = "err" THEN "err"
                   ELSE IF pos + 1 = Len(cursor) THEN "ok" ELSE rres
        /\ rpc' = IF pos + 1 = Len(cursor) THEN "idle" ELSE rpc

\* play_internal's `for event in rows` body on the row at pos + 1
Visit(visitorOk) ==
    LET x == FromRow(cursor[pos + 1])
    IN  IF ~x.ok
        THEN /\ rres' = "err" /\ failKind' = "deserialize" /\ rpc' = "idle"
             /\ UNCHANGED <<pos, delivered>>
        ELSE /\ delivered' = Append(delivered, x.event)
             /\ IF ~visitorOk
                THEN /\ rres' = "err" /\ failKind' = "visitor" /\ rpc' = "idle"
                     /\ pos' = pos
                ELSE /\ pos' = pos + 1
                     /\ failKind' = failKind
                     /\ IF pos + 1 = Len(cursor)
                        THEN rres' = "ok" /\ rpc' = "idle"
                        ELSE rres' = rres /\ rpc' = rpc

\* EventStorage::play / play_from: prepare the statement and run the SELECT
Query(q, fault) ==
    /\ rpc = "idle"
    /\ query' = q
    /\ pos' = 0
    /\ delivered' = <<>>
    /\ snap' = acked
    /\ IF fault
       THEN /\ cursor' = <<>>
            /\ rres' = "err" /\ failKind' = "prepare" /\ rpc' = "idle"
       ELSE /\ cursor' \in Select(rows, q)
            /\ failKind' = "none"
            /\ IF cursor' = <<>> THEN rres' = "ok" /\ rpc' = "idle"
                                 ELSE rres' = "run" /\ rpc' = "rows"
    /\ UNCHANGED <<rows, acked, clockVars, creatorVars, mutexVars>>
    /\ ForgetWriter

\* a replay that deletes each row it has handed over
PlayStepConsumes(visitorOk) ==
    /\ rpc = "rows"
    /\ Visit(visitorOk)
    /\ rows' = rows \ {cursor[pos + 1]}
    /\ UNCHANGED <<query, cursor, snap, acked, writerVars, clockVars, creatorVars, mutexVars>>

\* play_internal: the next row of the result, deserialized and handed to f
PlayStep(visitorOk) ==
    /\ rpc = "rows"
    /\ Visit(visitorOk)
    /\ UNCHANGED <<query, cursor, snap, rows, acked, writerVars, clockVars, creatorVars, mutexVars>>

Quiescent == wpc = "idle" /\ rpc = "idle"

\* one caller: every call runs to its end before the next one starts
StoreNext ==
    \/ \E e \in Incoming(rows), fault \in BOOLEAN : Quiescent /\ Record(e, fault)
    \/ \E fault \in BOOLEAN : Quiescent /\ BatchBegin(fault)
    \/ \E e \in Incoming(rows \cup Range(txRows)), fault \in BOOLEAN : BatchInsert(e, fault)
    \/ \E fault \in BOOLEAN : BatchCommit(fault)
    \/ \E q \in Queries, fault \in BOOLEAN : Quiescent /\ Query(q, fault)
    \/ \E visitorOk \in BOOLEAN : PlayStep(visitorOk)

\* a writer and a reader, each on its own connection to the same database
ConcEnvelopes == {e \in Envelopes : e.hlc.seconds = 0 /\ e.action.datum.v = "1.5"}

ConcNext ==
    \/ \E e \in ConcEnvelopes \cap Incoming(rows), fault \in BOOLEAN : Record(e, fault)
    \/ \E fault \in BOOLEAN : BatchBegin(fault)
    \/ \E e \in ConcEnvelopes \cap Incoming(rows \cup Range(txRows)), fault \in BOOLEAN :
           BatchInsert(e, fault)
    \/ \E fault \in BOOLEAN : BatchCommit(fault)
    \/ \E fault \in BOOLEAN : Query(PlayQuery, fault)
    \/ \E visitorOk \in BOOLEAN : PlayStep(visitorOk)

\* ---------------------------------------------------------------- EventCreator
Actors == {"alice", "bob"}

CreatorInit ==
    /\ cPhase = "none"
    /\ cActor = "alice"
    /\ cLast = new_with
    /\ cClock = new_with
    /\ cEvent = Event(0, new_with, [type |-> "none"], "alice", 0)
    /\ cPrev = new_with
    /\ cMade = 0

\* EventCreator::new(actor, hlt): a new clock, then hlc.update(hlt)
CreatorNew(actor, hlt, p) ==
    /\ cPhase = "none"
    /\ LET r == update(new_with, p, hlt, overflowChecks)
       IN  /\ cClock' = r.s
           /\ cPhase' = IF r.ok THEN "ready" ELSE "panicked"
    /\ cActor' = actor
    /\ cLast' = hlt
    /\ UNCHANGED <<cEvent, cPrev, cMade, clockVars, storeVars, mutexVars>>

\* EventCreator::create(action): get_time, a new id, version 0
Create(action, p) ==
    /\ cPhase = "ready"
    /\ cMade < MaxCreates
    /\ LET r == get_time(cClock, p, overflowChecks)
       IN  /\ cClock' = r.s
           /\ cPhase' = IF r.ok THEN "ready" ELSE "panicked"
           /\ cEvent' = IF r.ok THEN Event(cMade + 1, r.s, action, cActor, 0) ELSE cEvent
           /\ cPrev' = IF r.ok THEN cEvent.hlc ELSE cPrev
           /\ cMade' = IF r.ok THEN cMade + 1 ELSE cMade
    /\ UNCHANGED <<cActor, cLast, clockVars, storeVars, mutexVars>>

CreatorNext ==
    \/ \E a \in Actors, hlt \in RemoteStamps, p \in PhysReadings : CreatorNew(a, hlt, p)
    \/ \E act \in Actions, p \in PhysReadings : Create(act, p)

\* ---------------------------------------------------------------- Mutex<State>
MutexInit == holder = 0

\* mu.lock().unwrap(): blocks while another producer holds the lock
Acquire(t) ==
    /\ holder = 0
    /\ ~panicked
    /\ calls < MaxCalls
    /\ holder' = t
    /\ UNCHANGED <<clockVars, storeVars, creatorVars>>

\* the guard goes out of scope
Release ==
    /\ holder # 0
    /\ holder' = 0
    /\ UNCHANGED <<clockVars, storeVars, creatorVars>>

\* producers sharing one clock, each call made while holding the lock
MutexNext ==
    \/ \E t \in 1 .. Producers : Acquire(t)
    \/ \E p \in PhysReadings : holder # 0 /\ GetTime(p)
    \/ \E p \in PhysReadings, e \in RemoteStamps : holder # 0 /\ Update(p, e)
    \/ Release

Init == ClockInit /\ StoreInit /\ CreatorInit /\ MutexInit

Next == ClockNext \/ StoreNext \/ ConcNext \/ CreatorNext \/ MutexNext

ClockSpec == Init /\ [][ClockNext]_vars

\* the store is exercised beside a clock that is never called
StoreOnlyInit == ClockInit /\ overflowChecks /\ StoreInit /\ CreatorInit /\ MutexInit

StoreSpec == StoreOnlyInit /\ [][StoreNext]_vars

ConcSpec == StoreOnlyInit /\ [][ConcNext]_vars

CreatorSpec == Init /\ [][CreatorNext]_vars

MutexSpec == Init /\ [][MutexNext]_vars

Spec == Init /\ [][Next]_vars

\* ---------------------------------------------------------------- properties: clock

\* the state the four-branch merge rule prescribes, in unbounded integers
MergeRule(st, p, e) ==
    IF p > e.seconds /\ p > st.seconds THEN HLTimestamp(p, 0)
    ELSE IF e.seconds > st.seconds THEN HLTimestamp(e.seconds, e.logical + 1)
    ELSE IF st.seconds > e.seconds THEN HLTimestamp(st.seconds, st.logical + 1)
    ELSE HLTimestamp(st.seconds,
                     (IF st.logical > e.logical THEN st.logical ELSE e.logical) + 1)

\* the state the get_time rule prescribes, in unbounded integers
StampRule(st, p) ==
    IF p > st.seconds THEN HLTimestamp(p, 0)
    ELSE HLTimestamp(st.seconds, st.logical + 1)

\* C1: every get_time call returns a timestamp strictly greater than the one
\* the previous get_time call on the same clock returned, also when the
\* logical counter stands at its 16-bit maximum.
C1_GetTimeMonotonic ==
    (op = "get_time" /\ hasPrevGet) => (~panicked /\ Less(prevGet, ret))

\* C2: update(remote) returns, and leaves as the new state, exactly what the
\* four-branch rule prescribes for the state before the call, the physical
\* reading and the remote timestamp.
C2_UpdateFourBranch ==
    op = "update" =>
        /\ ~panicked
        /\ s = MergeRule(pre, phys, remote)
        /\ ret = s

\* C3: get_time sets the state to (p, 0) exactly when p > state.seconds and
\* otherwise keeps seconds and adds one to logical, returning the new state;
\* the readings 2, 2, 1, 3 from (0,0) yield (2,0), (2,1), (2,2), (3,0).
C3_GetTimeRule ==
    /\ op = "get_time" =>
           /\ ~panicked
           /\ s = StampRule(pre, phys)
           /\ ret = s
    /\ (Len(getLog) = 4 /\ [i \in 1 .. 4 |-> getLog[i][1]] = <<2, 2, 1, 3>>) =>
           [i \in 1 .. 4 |-> getLog[i][2]] =
               <<HLTimestamp(2, 0), HLTimestamp(2, 1), HLTimestamp(2, 2), HLTimestamp(3, 0)>>

\* ---------------------------------------------------------------- properties: store

CursorIds == {cursor[i].id : i \in DOMAIN cursor}

\* the row content an envelope is stored as (the rowid apart)
Stored(table, e) ==
    \E r \in table : r = Row(e, to_string(e.action).json, r.rowid)

\* C4: a completed play_from(t) has delivered every recorded event whose
\* timestamp is at or after t in the lexicographic (seconds, logical) order.
C4_PlayFromComplete ==
    (query.kind = "play_from" /\ rres = "ok") =>
        \A e \in snap : Leq(query.hlc, e.hlc) => e \in Range(delivered)

\* C5: play_from(t) never delivers an event strictly before t, and delivers
\* in ascending (seconds, logical) order.
C5_PlayFromNothingEarlier ==
    query.kind = "play_from" =>
        /\ \A i \in DOMAIN delivered : Leq(query.hlc, delivered[i].hlc)
        /\ \A i, j \in DOMAIN delivered : i < j => Leq(delivered[i].hlc, delivered[j].hlc)

\* a completed play_from that delivered an event and left out an earlier one
C5_Witness ==
    /\ query.kind = "play_from" /\ rres = "ok"
    /\ delivered # <<>>
    /\ \E e \in snap : Less(e.hlc, query.hlc) /\ e \notin Range(delivered)

\* C6: a record_batch that fails leaves the table exactly as it was before
\* the call; one that succeeds has stored every one of its events.
C6_BatchAtomic ==
    wop = "record_batch" =>
        /\ wres = "err" => rows = rowsBefore
        /\ wres = "ok" => \A i \in DOMAIN wlog : Stored(rows, wlog[i])

\* a batch that failed on its second element, after the first was inserted
C6_Witness ==
    /\ wop = "record_batch" /\ wres = "err"
    /\ Len(wlog) = 2
    /\ wlog[1].id # wlog[2].id
    /\ rowsBefore # {}

\* C7: play hands events to the visitor in ascending (seconds, logical)
\* order, whatever the order they were inserted in.
C7_PlayAscending ==
    query.kind = "play" =>
        \A i, j \in DOMAIN delivered : i < j => ~Less(delivered[j].hlc, delivered[i].hlc)

\* a completed play over two rows, the later-stamped one inserted first
C7_Witness ==
    /\ query.kind = "play" /\ rres = "ok"
    /\ Len(delivered) = 2
    /\ Less(delivered[1].hlc, delivered[2].hlc)
    /\ cursor[1].rowid > cursor[2].rowid

\* C8: a play whose visitor never fails invokes the visitor exactly once for
\* every event recorded before it, and for no other event.
C8_PlayDeliversAll ==
    (query.kind = "play" /\ rres \in {"ok", "err"} /\ failKind \notin {"visitor", "prepare"}) =>
        /\ Range(delivered) = snap
        /\ Len(delivered) = Cardinality(snap)

\* C9: a replay that fails on an event stops there: the call is over, and
\* what the visitor received is exactly the leading part of the ordered
\* result up to the failing row, each row once.
C9_ReplayStopsAtFailure ==
    (rres = "err" /\ failKind \in {"visitor", "deserialize"}) =>
        /\ rpc = "idle"
        /\ pos < Len(cursor)
        /\ Len(delivered) = IF failKind = "visitor" THEN pos + 1 ELSE pos
        /\ failKind = "deserialize" => ~FromRow(cursor[pos + 1]).ok
        /\ \A i \in DOMAIN delivered : delivered[i] = FromRow(cursor[i]).event
        /\ \A i, j \in DOMAIN cursor : i < j => OrderBy(cursor[i], cursor[j])
        /\ \A i, j \in DOMAIN cursor : i # j => cursor[i] # cursor[j]

\* the visitor failed on the first of two rows; the second was not delivered
C9_Witness ==
    /\ rres = "err" /\ failKind = "visitor"
    /\ Len(cursor) = 2
    /\ Len(delivered) = 1

\* C10: a replay running beside a record_batch sees none of the rows of an
\* open transaction, and of a committed batch it sees all rows or none.
C10_NoPartialBatch ==
    wop = "record_batch" =>
        /\ wres = "run" => CursorIds \cap {txRows[i].id : i \in DOMAIN txRows} = {}
        /\ wres = "ok" =>
               LET batch == {wlog[i].id : i \in DOMAIN wlog}
               IN  CursorIds \cap batch = {} \/ batch \subseteq CursorIds

\* a replay is between its SELECT and its end while a transaction holds a row
C10_Witness ==
    /\ wpc = "tx" /\ txRows # <<>>
    /\ rpc = "rows" /\ cursor # <<>>

\* C11: every event whose record / record_batch returned Ok is read back by
\* play's row decoding as an event equal to it in id, hlc, action, actor
\* and version.
C11_RoundTrip ==
    \A e \in acked :
        \E r \in rows : r.id = e.id /\ FromRow(r).ok /\ FromRow(r).event = e

\* C12: no step removes or alters a stored row or a recorded event, and a
\* play that returns Ok has delivered, unchanged, every event recorded
\* before it.
C12_AppendOnly ==
    [][/\ rows \subseteq rows'
       /\ acked \subseteq acked'
       /\ (query'.kind = "play" /\ rres' = "ok") => snap' \subseteq Range(delivered')]_vars

\* a record carrying the id of a stored event was refused
C12_Witness ==
    /\ wop = "record" /\ wres = "err"
    /\ \E r \in rows : r.id = wlog[1].id /\ ~Stored(rows, wlog[1])

\* C13: every event a creator built from a last-known timestamp L creates is
\* stamped strictly after L and strictly after the event created before it,
\* and carries the creator's actor and version 0; neither construction nor
\* create fails.
C13_CreatorContinues ==
    /\ cPhase # "panicked"
    /\ cMade >= 1 =>
           /\ Less(cLast, cEvent.hlc)
           /\ cEvent.actor = cActor
           /\ cEvent.version = 0
    /\ cMade >= 2 => Less(cPrev, cEvent.hlc)

\* C14: get_time and update are total: no call from a reachable clock state
\* fails to return a timestamp.
C14_ClockTotal == ~panicked

\* C15: every call returns a timestamp strictly greater than the clock state
\* before it, and update(remote) returns one strictly greater than remote.
C15_AfterStateAndRemote ==
    op # "none" =>
        /\ ~panicked
        /\ Less(pre, ret)
        /\ op = "update" => Less(remote, ret)

\* C16: state.seconds is the largest of 0, the physical readings taken and
\* the remote seconds merged so far, and no call lowers it.
C16_SecondsIsMax ==
    /\ s.seconds = maxSeen
    /\ s.seconds >= pre.seconds

\* an update that raised seconds to the remote's while the physical clock was behind
C16_Witness ==
    /\ op = "update"
    /\ phys < pre.seconds
    /\ remote.seconds > pre.seconds
    /\ pre.seconds > 0
    /\ s.seconds = remote.seconds

\* C17: stored ids are pairwise distinct; a record whose id is already stored
\* fails and changes nothing; a record_batch holding such an event, or two
\* events with one id, stores none of its events.
C17_UniqueIds ==
    /\ \A r1, r2 \in rows \cup Range(txRows) : r1.id = r2.id => r1 = r2
    /\ (wop = "record" /\ \E r \in rowsBefore : r.id = wlog[1].id) =>
           (wres = "err" /\ rows = rowsBefore)
    /\ (wop = "record_batch" /\
        \/ \E i \in DOMAIN wlog : \E r \in rowsBefore : r.id = wlog[i].id
        \/ \E i, j \in DOMAIN wlog : i # j /\ wlog[i].id = wlog[j].id) =>
           (wres = "err" /\ rows = rowsBefore)

\* a batch whose second event repeated the id of its first was refused
C17_Witness ==
    /\ wop = "record_batch" /\ wres = "err"
    /\ Len(wlog) = 2
    /\ wlog[1].id = wlog[2].id
    /\ wlog[1] # wlog[2]

\* C18: with every call made under the lock, the timestamps issued are
\* strictly increasing in lock-acquisition order (hence pairwise distinct):
\* each one issued is greater than the one issued under the previous hold.
C18_LockedIssueOrder ==
    (calls >= 2 /\ ~panicked) => Less(pre, ret)

\* C19: play and play_from leave the stored events as they are, whether they
\* complete or abort, so a play that returns Ok has delivered exactly the
\* rows the table holds.
C19_ReplayReadOnly ==
    [][/\ ((\E q \in Queries, fault \in BOOLEAN : Query(q, fault))
            \/ (\E visitorOk \in BOOLEAN : PlayStep(visitorOk)))
          => (rows' = rows /\ acked' = acked)
       /\ (query'.kind = "play" /\ rres' = "ok") => Range(cursor') = rows']_vars

\* a replay aborted by the visitor on the second of two stored events
C19_Witness ==
    /\ rres = "err" /\ failKind = "visitor"
    /\ Cardinality(rows) = 2
    /\ Len(delivered) = 2

====
